---- MODULE Spec2Model ----
(***************************************************************************)
(* A model of the runtime core of sixtyfps_runtime/corelib:                *)
(*   - abi/signals.rs : the single-handler Signal<Arg> and its C entry     *)
(*     points (sixtyfps_signal_init / emit / set_handler / drop);          *)
(*   - window.rs      : the GenericWindow interface and the ComponentWindow*)
(*     wrapper that forwards to it.                                        *)
(* The two parts share no state in the source; each has its own            *)
(* specification (SignalSpec, WindowSpec).                                 *)
(***************************************************************************)
EXTENDS Integers, Sequences, FiniteSets, TLC

(***************************************************************************)
(* Bounds of the model.                                                    *)
(***************************************************************************)
\* Number of API calls made on the channel in one behaviour.
MaxOps == 4
\* Depth of nested handler invocations (a handler that emits again) that the
\* call stack holds.
MaxDepth == 2
\* The count of times a window was put on screen stops here.
MaxMaps == 2
\* Number of ComponentWindow values for one window: the first and its clones.
MaxClones == 2

(***************************************************************************)
(* Values.                                                                 *)
(***************************************************************************)
None == "None"
\* The argument of a Signal<()>.
Unit == "()"
\* extern "C" fn(*mut c_void, &EvaluationContext)
Bindings == {"b1", "b2"}
\* *mut c_void
UserDatas == {"u1", "u2"}
\* extern "C" fn(*mut c_void)
DropFns == {"d1"}
\* Rust closures given to Signal::set_handler
Closures == {"f1", "f2"}
\* &EvaluationContext
Contexts == {"c1", "c2"}
\* What Arg is instantiated with: () or some other type.
ArgTypes == {"unit", "val"}
ArgsOf(t) == IF t = "unit" THEN {Unit} ELSE {"a1", "a2"}

VARIABLES
    arg_type,   \* the Arg of this Signal<Arg>
    sig,        \* "uninit", "live" or "dropped": the channel's memory
    handler,    \* Signal::handler : Option<Box<dyn Fn(&EvaluationContext, Arg)>>
    stack,      \* handler invocations in progress, innermost last
    pressed,    \* state reachable from a context, written by handlers
    trace,      \* every call made, in order
    nops,       \* API calls made so far
    nreg,       \* closures boxed so far (identity of a Box)
    overflow,   \* the call stack was exhausted and the process has stopped
    block,      \* the channel's memory as the C side sees it: the words of a SignalOpaque
    boxes       \* the closures that are boxed on the heap

sigvars == <<arg_type, sig, handler, stack, pressed, trace, nops, nreg, overflow,
             block, boxes>>

VARIABLES
    component,     \* the root component the window is associated with
    focus_item,    \* the item that has the focus, or None
    active_popup,  \* the popups shown, each a (popup, position) pair
    mapped,        \* whether the window is on screen
    width,         \* geometry of the window
    height,
    has_focus,     \* per item: focus gained and not lost since
    notes,         \* what the call in progress, or the last one, delivered to items
    wpc,           \* where the call in progress stands ("idle": none)
    pending,       \* the argument of the call in progress
    last,          \* the last call made on the window
    pre,           \* the window as it was when that call was made
    maps,          \* how often map_window put the window on screen
    scale_factor,        \* the scale factor set on the window
    keyboard_modifiers,  \* the currently active keyboard modifiers
    cached,        \* the items the window holds graphics resources for
    returned,      \* what the last call returned to its caller (None: nothing)
    run_pc,        \* where ComponentWindow::run stands ("idle": not running)
    run_calls,     \* what the run in progress, or the last one, did so far
    clones,        \* per ComponentWindow value: the window its Rc points to
    writer         \* the ComponentWindow value the scale factor was last set through (0: none)

winvars == <<component, focus_item, active_popup, mapped, width, height,
             has_focus, notes, wpc, pending, last, pre, maps,
             scale_factor, keyboard_modifiers, cached, returned,
             run_pc, run_calls, clones, writer>>

vars == <<sigvars, winvars>>

\* Option::None of Signal::handler.
NoHandler ==
    [reg |-> 0, kind |-> None, fn |-> None, user_data |-> None, drop_user_data |-> None]

\* One entry of the trace.
Ev(ev, reg, fn, data, context, arg, drop) ==
    [ev |-> ev, reg |-> reg, fn |-> fn, data |-> data,
     context |-> context, arg |-> arg, drop |-> drop]

\* struct UserData { user_data, drop_user_data }
UserData(user_data, drop_user_data) ==
    [user_data |-> user_data, drop_user_data |-> drop_user_data]

\* A Rust closure f that captures nothing that needs dropping, once boxed.
RustClosure(f) ==
    [reg |-> nreg + 1, kind |-> "rust", fn |-> f,
     user_data |-> None, drop_user_data |-> None]

\* let real_binding = move |compo, ()| { binding(ud.user_data, compo); }
real_binding(binding, ud) ==
    [reg |-> nreg + 1, kind |-> "ffi", fn |-> binding,
     user_data |-> ud.user_data, drop_user_data |-> ud.drop_user_data]

\* A drop that calls drop_user_data without looking whether there is one.
DropHandler_unconditional(h) ==
    IF h # NoHandler
    THEN <<Ev("drop_ud", h.reg, h.drop_user_data, h.user_data, None, None, None)>>
    ELSE <<>>

\* impl Drop for UserData, run when the box holding the closure is dropped:
\* the calls that dropping the Option<Box<..>> h makes.
DropHandler(h) ==
    IF h.drop_user_data # None
    THEN <<Ev("drop_ud", h.reg, h.drop_user_data, h.user_data, None, None, None)>>
    ELSE <<>>

\* A call that passes the arguments of the binding in the wrong order:
\* binding(compo, ud.user_data).
Invoke_swapped(h, context, a) ==
    IF h.kind = "ffi"
    THEN Ev("call", h.reg, h.fn, context, h.user_data, Unit, None)
    ELSE Ev("call", h.reg, h.fn, None, context, a, None)

\* h(context, a): the call that reaches user code.
Invoke(h, context, a) ==
    IF h.kind = "ffi"
    THEN Ev("call", h.reg, h.fn, h.user_data, context, Unit, None)
    ELSE Ev("call", h.reg, h.fn, None, context, a, None)

Frame(h, context, a) ==
    [reg |-> h.reg, context |-> context, arg |-> a, pc |-> "start"]

Top == stack[Len(stack)]

\* Who may call into the channel: its owner when no handler runs, or the
\* body of the innermost running handler.
CanCall ==
    /\ nops < MaxOps
    /\ ~overflow
    /\ IF stack = <<>> THEN TRUE ELSE Top.pc = "ran"

\* pub struct SignalOpaque(*const c_void, *const c_void): two pointers.
SignalOpaqueWords == 2

\* The second word of a Box<dyn Fn>: which closure type is in the box.
VTable(h) == IF h.kind = "ffi" THEN "real_binding" ELSE h.fn

\* An Option<Box<dyn Fn>> with a word of its own for the discriminant.
ToWords_tagged(h) ==
    IF h = NoHandler THEN <<0, 0, "null">> ELSE <<1, h.reg, VTable(h)>>

\* The words of a Signal<Arg>: its one field handler, an Option<Box<dyn Fn>>.
\* The box is a fat pointer (address of the closure, vtable); None is the
\* null address, which no box has.
ToWords(h) ==
    IF h = NoHandler THEN <<0, "null">> ELSE <<h.reg, VTable(h)>>

\* &*(sig as *const Signal<()>): the words of a SignalOpaque read as a
\* Signal<()>, with the closures on the heap.
FromWords(w, heap) ==
    IF w[1] = 0 THEN NoHandler ELSE CHOOSE b \in heap : b.reg = w[1]

\* The block of memory of a channel before it is initialised.
SigNew(types) ==
    /\ arg_type \in types
    /\ sig = "uninit"
    /\ handler = NoHandler
    /\ stack = <<>>
    /\ pressed = [c \in Contexts |-> FALSE]
    /\ trace = <<>>
    /\ nops = 0
    /\ nreg = 0
    /\ overflow = FALSE
    /\ block = <<-1, "uninit">>
    /\ boxes = {}

(***************************************************************************)
(* abi/signals.rs                                                          *)
(***************************************************************************)

\* #[derive(Default)] for Signal<Arg>: an empty handler slot.
Signal_default ==
    /\ handler' = NoHandler
    /\ sig' = "live"
    /\ trace' = Append(trace, Ev("init", 0, None, None, None, None, None))
    /\ block' = ToWords(NoHandler)
    /\ UNCHANGED <<stack, pressed, nreg, boxes>>

\* pub unsafe extern "C" fn sixtyfps_signal_init(out: *mut SignalOpaque)
\*   core::ptr::write(out as *mut Signal<()>, Default::default());
sixtyfps_signal_init ==
    /\ arg_type = "unit"
    /\ Signal_default

\* emit that takes the handler for granted: self.handler.as_ref().unwrap()(context, a)
Signal_emit_unwrap(context, a) ==
    /\ IF handler # NoHandler
       THEN /\ stack' = Append(stack, Frame(handler, context, a))
            /\ trace' = trace \o
                 << Ev("emit", handler.reg, None, None, context, a, None),
                    Invoke(handler, context, a) >>
       ELSE /\ stack' = stack
            /\ trace' = trace \o
                 << Ev("emit", 0, None, None, context, a, None),
                    Ev("panic", 0, None, None, context, a, None) >>
    /\ UNCHANGED <<handler, sig, pressed, nreg, block, boxes>>

\* emit that posts the handler and returns before it has run.
Signal_emit_deferred(context, a) ==
    /\ IF handler # NoHandler
       THEN /\ stack' = stack
            /\ trace' = trace \o
                 << Ev("emit", handler.reg, None, None, context, a, None),
                    Ev("ret", handler.reg, None, None, context, a, None),
                    Invoke(handler, context, a) >>
       ELSE /\ stack' = stack
            /\ trace' = trace \o
                 << Ev("emit", 0, None, None, context, a, None),
                    Ev("ret", 0, None, None, context, a, None) >>
    /\ UNCHANGED <<handler, sig, pressed, nreg, block, boxes>>

\* emit that takes the handler out of the slot to call it:
\* if let Some(h) = self.handler.take() { h(context, a); }
Signal_emit_take(context, a) ==
    /\ IF handler # NoHandler
       THEN /\ stack' = Append(stack, Frame(handler, context, a))
            /\ trace' = trace \o
                 << Ev("emit", handler.reg, None, None, context, a, None),
                    Invoke(handler, context, a) >>
       ELSE /\ stack' = stack
            /\ trace' = trace \o
                 << Ev("emit", 0, None, None, context, a, None),
                    Ev("ret", 0, None, None, context, a, None) >>
    /\ handler' = NoHandler
    /\ block' = ToWords(NoHandler)
    /\ UNCHANGED <<sig, pressed, nreg, boxes>>

\* pub fn emit(&self, context: &EvaluationContext, a: Arg)
\*   if let Some(h) = &self.handler { h(context, a); }
\* With a handler the call is in progress until HandlerReturn; without one
\* emit has returned at the end of this step.
Signal_emit(context, a) ==
    /\ IF handler # NoHandler
       THEN /\ stack' = Append(stack, Frame(handler, context, a))
            /\ trace' = trace \o
                 << Ev("emit", handler.reg, None, None, context, a, None),
                    Invoke(handler, context, a) >>
       ELSE /\ stack' = stack
            /\ trace' = trace \o
                 << Ev("emit", 0, None, None, context, a, None),
                    Ev("ret", 0, None, None, context, a, None) >>
    /\ UNCHANGED <<handler, sig, pressed, nreg, block, boxes>>

\* pub unsafe extern "C" fn sixtyfps_signal_emit(sig, component)
\*   let sig = &*(sig as *const Signal<()>); sig.emit(component, ());
\* (the parameter `component` is the evaluation context)
sixtyfps_signal_emit(context) ==
    /\ arg_type = "unit"
    /\ Signal_emit(context, Unit)

\* set_handler that keeps a handler that is already there.
Signal_set_handler_keep(f) ==
    /\ handler' = IF handler = NoHandler THEN f ELSE handler
    /\ nreg' = f.reg
    /\ trace' = trace \o
         << Ev("set", f.reg, f.fn, f.user_data, None, None, f.drop_user_data) >>
         \o (IF handler = NoHandler THEN <<>> ELSE DropHandler(f))
    /\ block' = ToWords(handler')
    /\ boxes' = IF handler = NoHandler THEN boxes \cup {f} ELSE boxes
    /\ UNCHANGED <<sig, stack, pressed>>

\* pub fn set_handler(&mut self, f: impl Fn(&EvaluationContext, Arg) + 'static)
\*   self.handler = Some(Box::new(f));
\* The assignment drops the box that was in the slot.
Signal_set_handler(f) ==
    /\ handler' = f
    /\ nreg' = f.reg
    /\ trace' = trace \o
         << Ev("set", f.reg, f.fn, f.user_data, None, None, f.drop_user_data) >>
         \o DropHandler(handler)
    /\ block' = ToWords(f)
    /\ boxes' = (boxes \ {handler}) \cup {f}
    /\ UNCHANGED <<sig, stack, pressed>>

\* pub unsafe extern "C" fn sixtyfps_signal_set_handler(sig, binding, user_data,
\*                                                      drop_user_data)
sixtyfps_signal_set_handler(binding, user_data, drop_user_data) ==
    /\ arg_type = "unit"
    /\ Signal_set_handler(real_binding(binding, UserData(user_data, drop_user_data)))

\* A drop that forgets the value instead of dropping it.
sixtyfps_signal_drop_forget ==
    /\ arg_type = "unit"
    /\ sig' = "dropped"
    /\ trace' = trace \o
         << Ev("sig_drop", handler.reg, None, None, None, None, None) >>
    /\ UNCHANGED <<handler, stack, pressed, nreg, block, boxes>>

\* pub unsafe extern "C" fn sixtyfps_signal_drop(handle: *mut SignalOpaque)
\*   core::ptr::read(handle as *mut Signal<()>);
\* The value read is dropped at the end of the statement; the bytes of the
\* block stay as they were.
sixtyfps_signal_drop ==
    /\ arg_type = "unit"
    /\ sig' = "dropped"
    /\ trace' = trace \o
         << Ev("sig_drop", handler.reg, None, None, None, None, None) >>
         \o DropHandler(handler)
    /\ boxes' = boxes \ {handler}
    /\ UNCHANGED <<handler, stack, pressed, nreg, block>>

\* The body of a handler, as the closure of signal_simple_test: it writes to
\* the component the context refers to.
HandlerBody ==
    /\ ~overflow
    /\ stack # <<>>
    /\ Top.pc = "start"
    /\ pressed' = [pressed EXCEPT ![Top.context] = TRUE]
    /\ stack' = [stack EXCEPT ![Len(stack)].pc = "ran"]
    /\ UNCHANGED <<arg_type, sig, handler, trace, nops, nreg, overflow, block, boxes,
                   winvars>>

\* An emit that, after its handler has run, waits to be resumed before it
\* returns.
HandlerReturn_waits ==
    /\ ~overflow
    /\ stack # <<>>
    /\ Top.pc = "resumed"
    /\ stack' = SubSeq(stack, 1, Len(stack) - 1)
    /\ trace' = Append(trace, Ev("ret", Top.reg, None, None, Top.context, Top.arg, None))
    /\ UNCHANGED <<arg_type, sig, handler, pressed, nops, nreg, overflow, block, boxes,
                   winvars>>

\* h(context, a) returns, and with it the emit that called it.
HandlerReturn ==
    /\ ~overflow
    /\ stack # <<>>
    /\ Top.pc = "ran"
    /\ stack' = SubSeq(stack, 1, Len(stack) - 1)
    /\ trace' = Append(trace, Ev("ret", Top.reg, None, None, Top.context, Top.arg, None))
    /\ UNCHANGED <<arg_type, sig, handler, pressed, nops, nreg, overflow, block, boxes,
                   winvars>>

(***************************************************************************)
(* The callers of the channel.                                             *)
(***************************************************************************)
Called == nops' = nops + 1 /\ UNCHANGED <<arg_type, overflow, winvars>>

CallDefault ==
    /\ CanCall /\ stack = <<>> /\ sig # "live"
    /\ Signal_default /\ Called

CallInit ==
    /\ CanCall /\ stack = <<>> /\ sig # "live"
    /\ sixtyfps_signal_init /\ Called

CallEmit ==
    /\ CanCall /\ sig = "live" /\ Len(stack) < MaxDepth
    /\ \E c \in Contexts, a \in ArgsOf(arg_type) : Signal_emit(c, a)
    /\ Called

CallFfiEmit ==
    /\ CanCall /\ sig = "live" /\ Len(stack) < MaxDepth
    /\ \E c \in Contexts : sixtyfps_signal_emit(c)
    /\ Called

\* A handler emits on its channel when MaxDepth invocations are already in
\* progress. emit has no guard against re-entrancy: the call needs one more
\* frame than the call stack holds, and the process stops there with every
\* emit in progress unreturned.
CallEmitOverflow ==
    /\ ~overflow /\ sig = "live" /\ handler # NoHandler
    /\ Len(stack) = MaxDepth
    /\ IF stack = <<>> THEN FALSE ELSE Top.pc = "ran"
    /\ overflow' = TRUE
    /\ trace' = Append(trace,
                       Ev("overflow", handler.reg, None, None, Top.context, None, None))
    /\ UNCHANGED <<arg_type, sig, handler, stack, pressed, nops, nreg, block, boxes,
                   winvars>>

\* &mut self: not callable while emit borrows the signal.
CallSetHandler ==
    /\ CanCall /\ sig = "live" /\ stack = <<>>
    /\ \E f \in Closures : Signal_set_handler(RustClosure(f))
    /\ Called

\* Through the raw pointer, also from inside a running handler. The box of
\* the running closure is then dropped under it; what is left of the closure
\* to execute, the return from binding(ud.user_data, compo), reads nothing
\* of the box, so the invocation goes on to return.
CallFfiSetHandler ==
    /\ CanCall /\ sig = "live"
    /\ \E b \in Bindings, u \in UserDatas, d \in DropFns \cup {None} :
           sixtyfps_signal_set_handler(b, u, d)
    /\ Called

CallDrop ==
    /\ CanCall /\ sig = "live" /\ stack = <<>>
    /\ sixtyfps_signal_drop /\ Called

(***************************************************************************)
(* Properties of the channel.                                              *)
(***************************************************************************)
Idx == 1..Len(trace)

\* The last registration or initialisation before entry i (0: none).
LastReg(i) ==
    LET S == {j \in 1..(i - 1) : trace[j].ev \in {"set", "init"}}
    IN  IF S = {} THEN 0 ELSE CHOOSE j \in S : \A k \in S : k <= j

\* The first entry after j that ends the registration made at j (0: none).
EndOf(j) ==
    LET S == {k \in (j + 1)..Len(trace) : trace[k].ev \in {"set", "sig_drop"}}
    IN  IF S = {} THEN 0 ELSE CHOOSE k \in S : \A m \in S : k <= m

DropsOf(r) == {k \in Idx : trace[k].ev = "drop_ud" /\ trace[k].reg = r}

\* C1: whatever the sequence of set_handler calls, a handler is invoked only
\* by an emit, one handler per emit, and it is the handler of the most
\* recent set_handler: never an earlier one, never two of them.
C1_OnlyLatestHandlerFires ==
    /\ \A i \in Idx : trace[i].ev = "call" =>
          /\ i > 1
          /\ trace[i - 1].ev = "emit"
          /\ LastReg(i) > 0
          /\ LET s == trace[LastReg(i)]
             IN  /\ s.ev = "set"
                 /\ trace[i].reg = s.reg
                 /\ trace[i].fn = s.fn
                 /\ trace[i].data = s.data
    /\ \A i \in Idx : (trace[i].ev = "emit" /\ LastReg(i) > 0
                         /\ trace[LastReg(i)].ev = "set") =>
          /\ i < Len(trace)
          /\ trace[i + 1].ev = "call"
          /\ trace[i + 1].reg = trace[LastReg(i)].reg

\* Two handlers were set one after the other and the emit that followed
\* called the second.
C1_Witness ==
    \E i, j, k \in Idx :
        /\ i < j /\ j < k
        /\ trace[i].ev = "set" /\ trace[j].ev = "set"
        /\ trace[i].fn # trace[j].fn
        /\ trace[k].ev = "call" /\ trace[k].reg = trace[j].reg

\* C2: the drop_user_data of a handler registered with one is called with
\* that handler's user_data, at the moment the handler is replaced or the
\* channel is dropped, and at no other moment: not at all while the handler
\* is registered, exactly once from then on.
C2_DropUserDataExactlyOnce ==
    \A j \in Idx : (trace[j].ev = "set" /\ trace[j].drop # None) =>
        LET k == EndOf(j)
        IN  IF k = 0
            THEN DropsOf(trace[j].reg) = {}
            ELSE /\ DropsOf(trace[j].reg) = {k + 1}
                 /\ trace[k + 1].fn = trace[j].drop
                 /\ trace[k + 1].data = trace[j].data

\* A handler with a destructor was registered, the channel was dropped
\* without an emit, and the destructor ran at the drop.
C2_Witness ==
    /\ sig = "dropped"
    /\ \A i \in Idx : trace[i].ev # "emit"
    /\ \E j \in Idx :
          /\ trace[j].ev = "set" /\ trace[j].drop # None
          /\ j + 2 = Len(trace)
          /\ trace[j + 1].ev = "sig_drop"
          /\ trace[j + 2].ev = "drop_ud"

\* Whether a handler was set since the channel was last initialised.
EverSet == LastReg(Len(trace) + 1) > 0 /\ trace[LastReg(Len(trace) + 1)].ev = "set"

\* C3: an emit on a channel on which no handler was set since it was
\* initialised returns at once, nothing is called in between, and the
\* channel stays empty.
C3_EmitWithoutHandlerIsNoOp ==
    /\ \A i \in Idx : (trace[i].ev = "emit" /\ LastReg(i) > 0
                         /\ trace[LastReg(i)].ev = "init") =>
          /\ i < Len(trace)
          /\ trace[i + 1].ev = "ret"
          /\ trace[i].reg = 0
    /\ (sig = "live" /\ ~EverSet) => (handler = NoHandler /\ stack = <<>>)
    /\ ~EverSet => \A i \in Idx : i > LastReg(Len(trace) + 1) =>
                       trace[i].ev \notin {"call", "drop_ud", "panic"}

\* A channel was initialised and emitted, and no handler was ever set.
C3_Witness ==
    /\ sig = "live"
    /\ \A i \in Idx : trace[i].ev # "set"
    /\ Len(trace) >= 3
    /\ trace[Len(trace) - 1].ev = "emit"
    /\ trace[Len(trace)].ev = "ret"

\* C4: an emit on a channel with a handler calls that handler, once, with the
\* context and the argument of the emit, and returns only after the handler
\* has run: what the handler wrote is there when emit returns.
C4_EmitInvokesHandlerOnceSynchronously ==
    /\ \A i \in Idx : (trace[i].ev = "emit" /\ trace[i].reg # 0) =>
          /\ i < Len(trace)
          /\ trace[i + 1].ev = "call"
          /\ trace[i + 1].reg = trace[i].reg
          /\ trace[i + 1].context = trace[i].context
          /\ trace[i + 1].arg = trace[i].arg
          /\ (i + 1 < Len(trace) => trace[i + 2].ev # "call")
    /\ \A i \in Idx : trace[i].ev = "call" => (i > 1 /\ trace[i - 1].ev = "emit")
    /\ \A i \in Idx : (trace[i].ev = "ret" /\ trace[i].reg # 0) =>
          /\ pressed[trace[i].context]
          /\ \E j \in 1..(i - 1) :
                /\ trace[j].ev = "call"
                /\ trace[j].reg = trace[i].reg
                /\ trace[j].context = trace[i].context
    /\ Cardinality({i \in Idx : trace[i].ev = "call"})
         = Cardinality({i \in Idx : trace[i].ev = "ret" /\ trace[i].reg # 0})
             + Len(stack)

\* An emit with a handler registered has returned.
C4_Witness ==
    /\ stack = <<>>
    /\ Len(trace) >= 3
    /\ trace[Len(trace)].ev = "ret"
    /\ trace[Len(trace)].reg # 0
    /\ trace[Len(trace) - 1].ev = "call"
    /\ trace[Len(trace) - 2].ev = "emit"
    /\ pressed[trace[Len(trace)].context]

EmitsBegun == {i \in Idx : trace[i].ev = "emit" /\ trace[i].reg # 0}
EmitsReturned == {i \in Idx : trace[i].ev = "ret" /\ trace[i].reg # 0}

\* C13 as stated: emit always returns, also when the handler emits on the
\* same channel while it runs: no emit is left in progress in a process
\* that has stopped.
C13_EmitAlwaysReturns ==
    stack # <<>> => ~overflow

\* C13: emit itself neither suspends nor loops. It makes one call of the
\* handler and returns when that call returns: as long as the process runs,
\* the innermost emit in progress can take its next step, and the emits in
\* progress are exactly the handler invocations in progress, one frame
\* each. A handler that emits again nests one more frame per emit; the
\* process stops only when that nesting has used up the call stack.
C13_EmitReturnsUnlessStackExhausted ==
    /\ Len(stack) <= MaxDepth
    /\ Len(stack) = Cardinality(EmitsBegun) - Cardinality(EmitsReturned)
    /\ (stack # <<>> /\ ~overflow) => (ENABLED HandlerBody \/ ENABLED HandlerReturn)
    /\ overflow =>
          /\ Len(stack) = MaxDepth
          /\ \A f \in 1..Len(stack) : stack[f].pc = "ran"
          /\ trace[Len(trace)].ev = "overflow"

\* A handler emitted on its channel while it ran, the nested emit returned
\* and then the outer one.
C13_Witness ==
    /\ stack = <<>>
    /\ ~overflow
    /\ Len(trace) >= 6
    /\ LET n == Len(trace)
       IN  /\ trace[n - 5].ev = "emit" /\ trace[n - 4].ev = "call"
           /\ trace[n - 3].ev = "emit" /\ trace[n - 2].ev = "call"
           /\ trace[n - 1].ev = "ret" /\ trace[n].ev = "ret"
           /\ trace[n - 3].reg = trace[n - 5].reg

\* C14: the captured state of a handler is not destroyed while the handler
\* runs: no drop_user_data call is made for a handler whose invocation is
\* still in progress.
C14_NoDropWhileHandlerRuns ==
    \A f \in 1..Len(stack) : DropsOf(stack[f].reg) = {}

\* The entry that registered the closure with identity r.
SetOf(r) == CHOOSE j \in Idx : trace[j].ev = "set" /\ trace[j].reg = r

\* C15: a binding registered through sixtyfps_signal_set_handler is called
\* with the user_data of its own registration and the context of the emit,
\* whatever was registered before it, and a drop_user_data is called with the
\* user_data it was registered with.
C15_BindingGetsItsOwnUserData ==
    /\ \A i \in Idx : (trace[i].ev = "call" /\ trace[i].fn \in Bindings) =>
          /\ \E j \in 1..(i - 1) : trace[j].ev = "set" /\ trace[j].reg = trace[i].reg
          /\ LET s == trace[SetOf(trace[i].reg)]
             IN  /\ trace[i].fn = s.fn
                 /\ trace[i].data = s.data
                 /\ s.data \in UserDatas
          /\ trace[i].context = trace[i - 1].context
          /\ trace[i].context \in Contexts
          /\ trace[i].arg = Unit
    /\ \A k \in Idx : trace[k].ev = "drop_ud" =>
          /\ \E j \in 1..(k - 1) : trace[j].ev = "set" /\ trace[j].reg = trace[k].reg
          /\ LET s == trace[SetOf(trace[k].reg)]
             IN  /\ trace[k].fn = s.drop
                 /\ trace[k].data = s.data

\* Two registrations with different user_data were made, the destructor of
\* the first got the first user_data and the emit that followed called the
\* binding with the second.
C15_Witness ==
    \E i, j, d, k \in Idx :
        /\ i < j /\ j < d /\ d < k
        /\ trace[i].ev = "set" /\ trace[j].ev = "set"
        /\ trace[i].data \in UserDatas /\ trace[j].data \in UserDatas
        /\ trace[i].data # trace[j].data
        /\ trace[d].ev = "drop_ud" /\ trace[d].data = trace[i].data
        /\ trace[k].ev = "call" /\ trace[k].data = trace[j].data

\* The handler the channel holds according to the trace: the closure of the
\* last registration since the channel was initialised (0: none).
Registered ==
    IF LastReg(Len(trace) + 1) = 0 THEN 0 ELSE trace[LastReg(Len(trace) + 1)].reg

\* C16: emit leaves the registration as it is. The channel holds the handler
\* of the last set_handler however many emits were made since; emits made
\* with no set_handler between them call the same handler, one call per
\* emit; and a drop_user_data call is made only by a replacement or by the
\* drop of the channel, never by an emit.
C16_EmitKeepsRegistration ==
    /\ sig = "live" => handler.reg = Registered
    /\ \A i \in Idx : (trace[i].ev = "emit" /\ LastReg(i) > 0) =>
          trace[i].reg = trace[LastReg(i)].reg
    /\ \A r \in 1..nreg :
          Cardinality({i \in Idx : trace[i].ev = "call" /\ trace[i].reg = r})
            = Cardinality({i \in Idx : trace[i].ev = "emit" /\ trace[i].reg = r})
    /\ \A k \in Idx : trace[k].ev = "drop_ud" =>
          (k > 1 /\ trace[k - 1].ev \in {"set", "sig_drop"})

\* Two emits, one after the other has returned, called the same handler, and
\* its destructor has not been called.
C16_Witness ==
    /\ stack = <<>>
    /\ Len(trace) >= 7
    /\ LET n == Len(trace)
       IN  /\ trace[n - 6].ev = "set" /\ trace[n - 6].drop # None
           /\ trace[n - 5].ev = "emit" /\ trace[n - 4].ev = "call"
           /\ trace[n - 3].ev = "ret"
           /\ trace[n - 2].ev = "emit" /\ trace[n - 1].ev = "call"
           /\ trace[n].ev = "ret"
           /\ trace[n - 4].reg = trace[n - 6].reg
           /\ trace[n - 1].reg = trace[n - 6].reg
           /\ handler.reg = trace[n - 6].reg
    /\ \A k \in Idx : trace[k].ev # "drop_ud"

\* C17: registering a handler does not call it: a handler is called by an
\* emit and by nothing else, so never by the set_handler that registers it.
\* For a handler registered without drop_user_data no destructor call is
\* made, neither when it is replaced nor when the channel is dropped, and
\* the replacement and the drop take place all the same.
C17_RegisteringNeverInvokes ==
    /\ \A i \in Idx : trace[i].ev = "set" =>
          /\ i < Len(trace) => trace[i + 1].ev # "call"
          /\ \A k \in Idx : (trace[k].ev = "call" /\ trace[k].reg = trace[i].reg) =>
                \E e \in (i + 1)..(k - 1) :
                    trace[e].ev = "emit" /\ trace[e].reg = trace[i].reg
    /\ \A j \in Idx : (trace[j].ev = "set" /\ trace[j].drop = None) =>
          /\ DropsOf(trace[j].reg) = {}
          /\ EndOf(j) > 0 =>
                (EndOf(j) = Len(trace) \/ trace[EndOf(j) + 1].ev # "drop_ud")
    /\ (trace # <<>> /\ trace[Len(trace)].ev = "set") =>
          handler.reg = trace[Len(trace)].reg
    /\ (trace # <<>> /\ trace[Len(trace)].ev = "sig_drop") => sig = "dropped"

\* A binding registered without drop_user_data was replaced, and the channel
\* with the replacement, again without drop_user_data, was dropped: the
\* trace shows no call of a handler and no destructor call.
C17_Witness ==
    /\ sig = "dropped"
    /\ Len(trace) >= 3
    /\ LET n == Len(trace)
       IN  /\ trace[n - 2].ev = "set" /\ trace[n - 2].fn \in Bindings
           /\ trace[n - 2].drop = None
           /\ trace[n - 1].ev = "set" /\ trace[n - 1].drop = None
           /\ trace[n].ev = "sig_drop"
           /\ handler.reg = trace[n - 1].reg
    /\ \A k \in Idx : trace[k].ev \notin {"call", "drop_ud"}

(***************************************************************************)
(* window.rs                                                               *)
(*                                                                         *)
(* The file declares the GenericWindow interface and defines the           *)
(* ComponentWindow wrapper.  The implementation of the interface lives in  *)
(* the graphics module; what its operations do is taken from the           *)
(* interface's documentation and from the design description (section 4.3).*)
(***************************************************************************)
\* ItemRc
Items == {"A", "B"}
\* ComponentRc
Components == {"r1", "r2"}
\* Point
Positions == {"p1", "p2"}
\* KeyEvent
KeyEvents == {"k1", "k2"}
\* f32 widths and heights
Sizes == {320, 640}
\* MouseEventType
MouseEventTypes == {"MousePressed", "MouseReleased"}
\* winit::dpi::PhysicalPosition<f64>
MousePositions == {"m1"}

\* The component whose tree an item is part of; a component is the root of
\* its own tree.
ComponentOf(x) ==
    IF x = "A" THEN "r1" ELSE IF x = "B" THEN "r2" ELSE x

\* The window_impl given to ComponentWindow::new.
TheWindow == "w1"
\* f32 scale factors
ScaleFactors == {1, 2}
\* crate::input::KeyboardModifiers
KeyboardModifiers == {"NoModifier", "Shift"}

\* pub fn new(window_impl: Rc<dyn GenericWindow>) -> Self
\*   Self(window_impl)
ComponentWindow_new(window_impl) == window_impl

\* A clone that wraps a window of its own.
ComponentWindow_clone_detached(cw) == "w2"

\* #[derive(Clone)] pub struct ComponentWindow(pub Rc<dyn GenericWindow>):
\* the clone of the Rc points to the same window.
ComponentWindow_clone(cw) == cw

Popup(popup, position) == [popup |-> popup, position |-> position]

Note(ev, item, key) == [ev |-> ev, item |-> item, key |-> key]

Call(op, item, comp, position, key, n, flag) ==
    [op |-> op, item |-> item, component |-> comp, position |-> position,
     key |-> key, n |-> n, flag |-> flag]

Snapshot ==
    [component |-> component, focus_item |-> focus_item,
     active_popup |-> active_popup, mapped |-> mapped,
     width |-> width, height |-> height, has_focus |-> has_focus]

\* An item's reaction to a focus event.
focus_event(hf, item, ev) ==
    [hf EXCEPT ![item] = (ev \in {"FocusIn", "WindowReceivedFocus"})]

\* A window that was just created: not on screen, no component, no focus,
\* no popup.
WinNew(sizes) ==
    /\ width \in sizes
    /\ height \in sizes
    /\ component = None
    /\ focus_item = None
    /\ active_popup = {}
    /\ mapped = FALSE
    /\ has_focus = [i \in Items |-> FALSE]
    /\ notes = <<>>
    /\ wpc = "idle"
    /\ pending = None
    /\ last = Call("none", None, None, None, None, 0, FALSE)
    /\ pre = Snapshot
    /\ maps = 0
    /\ scale_factor = 1
    /\ keyboard_modifiers = "NoModifier"
    /\ cached = {}
    /\ returned = None
    /\ run_pc = "idle"
    /\ run_calls = <<>>
    /\ clones = <<ComponentWindow_new(TheWindow)>>
    /\ writer = 0

\* fn set_component(self: Rc<Self>, component: &ComponentRc)
GenericWindow_set_component(c) ==
    /\ component' = c
    /\ notes' = <<>>
    /\ UNCHANGED <<focus_item, active_popup, mapped, width, height, has_focus,
                   wpc, pending, maps,
                   scale_factor, keyboard_modifiers, cached>>

\* fn process_mouse_input(self: Rc<Self>, pos, what: MouseEventType)
\* The event is passed to the items of the component, from its root.
GenericWindow_process_mouse_input(pos, what) ==
    /\ notes' = IF component # None
                THEN <<Note("MouseEvent", component, what)>>
                ELSE <<>>
    /\ UNCHANGED <<component, focus_item, active_popup, mapped, width, height,
                   has_focus, wpc, pending, maps,
                   scale_factor, keyboard_modifiers, cached>>

\* fn process_key_input(self: Rc<Self>, event: &KeyEvent)
GenericWindow_process_key_input(event) ==
    /\ notes' = IF focus_item # None
                THEN <<Note("KeyEvent", focus_item, event)>>
                ELSE <<>>
    /\ UNCHANGED <<component, focus_item, active_popup, mapped, width, height,
                   has_focus, wpc, pending, maps,
                   scale_factor, keyboard_modifiers, cached>>

\* fn map_window(self: Rc<Self>, event_loop: &EventLoop)
GenericWindow_map_window ==
    /\ mapped' = TRUE
    /\ maps' = IF ~mapped /\ maps < MaxMaps THEN maps + 1 ELSE maps
    /\ notes' = <<>>
    /\ UNCHANGED <<component, focus_item, active_popup, width, height, has_focus,
                   wpc, pending, scale_factor, keyboard_modifiers, cached>>

\* An unmap that leaves the window on screen.
GenericWindow_unmap_window_stays ==
    /\ notes' = <<>>
    /\ UNCHANGED <<component, focus_item, active_popup, mapped, width, height,
                   has_focus, wpc, pending, maps,
                   scale_factor, keyboard_modifiers, cached>>

\* fn unmap_window(self: Rc<Self>)
GenericWindow_unmap_window ==
    /\ mapped' = FALSE
    /\ notes' = <<>>
    /\ UNCHANGED <<component, focus_item, active_popup, width, height, has_focus,
                   wpc, pending, maps,
                   scale_factor, keyboard_modifiers, cached>>

\* fn set_width(&self, width: f32)
GenericWindow_set_width(w) ==
    /\ width' = w
    /\ notes' = <<>>
    /\ UNCHANGED <<component, focus_item, active_popup, mapped, height, has_focus,
                   wpc, pending, maps,
                   scale_factor, keyboard_modifiers, cached>>

\* fn set_height(&self, height: f32)
GenericWindow_set_height(h) ==
    /\ height' = h
    /\ notes' = <<>>
    /\ UNCHANGED <<component, focus_item, active_popup, mapped, width, has_focus,
                   wpc, pending, maps,
                   scale_factor, keyboard_modifiers, cached>>

\* fn set_focus_item(self: Rc<Self>, focus_item: &ItemRc), first half:
\* the focus is removed from the item that has it.
GenericWindow_set_focus_item(item) ==
    /\ IF focus_item # None
       THEN /\ notes' = <<Note("FocusOut", focus_item, None)>>
            /\ has_focus' = focus_event(has_focus, focus_item, "FocusOut")
       ELSE /\ notes' = <<>>
            /\ has_focus' = has_focus
    /\ wpc' = "focus_in"
    /\ pending' = item
    /\ UNCHANGED <<component, focus_item, active_popup, mapped, width, height,
                   maps,
                   scale_factor, keyboard_modifiers, cached>>

\* set_focus_item, second half: the item becomes the focus item and is told.
GenericWindow_set_focus_item_in ==
    /\ wpc = "focus_in"
    /\ focus_item' = pending
    /\ notes' = Append(notes, Note("FocusIn", pending, None))
    /\ has_focus' = focus_event(has_focus, pending, "FocusIn")
    /\ wpc' = "idle"
    /\ pending' = None
    /\ UNCHANGED <<component, active_popup, mapped, width, height,
                   last, pre, maps, scale_factor, keyboard_modifiers, cached,
                   returned, run_pc, run_calls, clones, writer, sigvars>>

\* fn set_focus(self: Rc<Self>, have_focus: bool)
GenericWindow_set_focus(have_focus) ==
    /\ IF focus_item # None
       THEN LET ev == IF have_focus THEN "WindowReceivedFocus" ELSE "WindowLostFocus"
            IN  /\ notes' = <<Note(ev, focus_item, None)>>
                /\ has_focus' = focus_event(has_focus, focus_item, ev)
       ELSE /\ notes' = <<>>
            /\ has_focus' = has_focus
    /\ UNCHANGED <<component, focus_item, active_popup, mapped, width, height,
                   wpc, pending, maps,
                   scale_factor, keyboard_modifiers, cached>>

\* fn show_popup(&self, popup: &ComponentRc, position: Point)
GenericWindow_show_popup(popup, position) ==
    /\ active_popup' = {Popup(popup, position)}
    /\ notes' = <<>>
    /\ UNCHANGED <<component, focus_item, mapped, width, height, has_focus,
                   wpc, pending, maps,
                   scale_factor, keyboard_modifiers, cached>>

\* fn close_popup(&self)
GenericWindow_close_popup ==
    /\ active_popup' = {}
    /\ notes' = <<>>
    /\ UNCHANGED <<component, focus_item, mapped, width, height, has_focus,
                   wpc, pending, maps,
                   scale_factor, keyboard_modifiers, cached>>

\* fn draw(self: Rc<Self>)
\* Drawing leaves graphics resources cached for the items drawn.
GenericWindow_draw ==
    /\ cached' = cached \cup {i \in Items : ComponentOf(i) = component}
    /\ notes' = <<>>
    /\ UNCHANGED <<component, focus_item, active_popup, mapped, width, height,
                   has_focus, wpc, pending, maps, scale_factor, keyboard_modifiers>>

\* fn scale_factor(&self) -> f32
GenericWindow_scale_factor ==
    /\ returned' = scale_factor
    /\ notes' = <<>>
    /\ UNCHANGED <<component, focus_item, active_popup, mapped, width, height,
                   has_focus, wpc, pending, maps,
                   scale_factor, keyboard_modifiers, cached>>

\* fn set_scale_factor(&self, factor: f32)
GenericWindow_set_scale_factor(factor) ==
    /\ scale_factor' = factor
    /\ notes' = <<>>
    /\ UNCHANGED <<component, focus_item, active_popup, mapped, width, height,
                   has_focus, wpc, pending, maps, keyboard_modifiers, cached>>

\* fn free_graphics_resources<'a>(self: Rc<Self>, items: &Slice<'a, Pin<ItemRef<'a>>>)
GenericWindow_free_graphics_resources(items) ==
    /\ cached' = cached \ items
    /\ notes' = <<>>
    /\ UNCHANGED <<component, focus_item, active_popup, mapped, width, height,
                   has_focus, wpc, pending, maps, scale_factor, keyboard_modifiers>>

\* fn current_keyboard_modifiers(&self) -> crate::input::KeyboardModifiers
GenericWindow_current_keyboard_modifiers ==
    /\ returned' = keyboard_modifiers
    /\ notes' = <<>>
    /\ UNCHANGED <<component, focus_item, active_popup, mapped, width, height,
                   has_focus, wpc, pending, maps,
                   scale_factor, keyboard_modifiers, cached>>

\* fn set_current_keyboard_modifiers(&self, modifiers: crate::input::KeyboardModifiers)
GenericWindow_set_current_keyboard_modifiers(modifiers) ==
    /\ keyboard_modifiers' = modifiers
    /\ notes' = <<>>
    /\ UNCHANGED <<component, focus_item, active_popup, mapped, width, height,
                   has_focus, wpc, pending, maps, scale_factor, cached>>

\* pub fn scale_factor(&self) -> f32
\*   self.0.scale_factor()
ComponentWindow_scale_factor ==
    GenericWindow_scale_factor

\* pub fn set_scale_factor(&self, factor: f32)
\*   self.0.set_scale_factor(factor)
ComponentWindow_set_scale_factor(factor) ==
    GenericWindow_set_scale_factor(factor)

\* pub fn free_graphics_resources<'a>(&self, items: &Slice<'a, Pin<ItemRef<'a>>>)
\*   self.0.clone().free_graphics_resources(items);
ComponentWindow_free_graphics_resources(items) ==
    GenericWindow_free_graphics_resources(items)

\* pub(crate) fn set_current_keyboard_modifiers(&self, modifiers)
\*   self.0.clone().set_current_keyboard_modifiers(modifiers)
ComponentWindow_set_current_keyboard_modifiers(modifiers) ==
    GenericWindow_set_current_keyboard_modifiers(modifiers)

\* pub(crate) fn current_keyboard_modifiers(&self) -> crate::input::KeyboardModifiers
\*   self.0.clone().current_keyboard_modifiers()
ComponentWindow_current_keyboard_modifiers ==
    GenericWindow_current_keyboard_modifiers

\* A wrapper that forwards a key event of its own instead of the caller's.
ComponentWindow_process_key_input_other(event) ==
    GenericWindow_process_key_input("k1")

\* pub(crate) fn process_key_input(&self, event: &KeyEvent)
\*   self.0.clone().process_key_input(event)
ComponentWindow_process_key_input(event) ==
    GenericWindow_process_key_input(event)

\* A wrapper that forwards to set_focus instead of set_focus_item.
ComponentWindow_set_focus_item_as_set_focus(item) ==
    GenericWindow_set_focus(TRUE)

\* pub fn set_focus_item(&self, focus_item: &ItemRc)
\*   self.0.clone().set_focus_item(focus_item)
ComponentWindow_set_focus_item(item) ==
    GenericWindow_set_focus_item(item)

\* pub fn set_component(&self, component: &ComponentRc)
\*   self.0.clone().set_component(component)
ComponentWindow_set_component(c) ==
    GenericWindow_set_component(c)

\* A wrapper with the bodies of show_popup and close_popup exchanged.
ComponentWindow_show_popup_as_close(popup, position) ==
    GenericWindow_close_popup

\* A wrapper that also makes the popup the component of the window.
ComponentWindow_show_popup_and_set_component(popup, position) ==
    /\ active_popup' = {Popup(popup, position)}
    /\ component' = popup
    /\ notes' = <<>>
    /\ UNCHANGED <<focus_item, mapped, width, height, has_focus, wpc, pending,
                   maps,
                   scale_factor, keyboard_modifiers, cached>>

\* pub fn show_popup(&self, popup: &ComponentRc, position: Point)
\*   self.0.clone().show_popup(popup, position)
ComponentWindow_show_popup(popup, position) ==
    GenericWindow_show_popup(popup, position)

\* A wrapper that takes the window off the screen instead of the popup.
ComponentWindow_close_popup_as_unmap ==
    GenericWindow_unmap_window

\* pub fn close_popup(&self)
\*   self.0.clone().close_popup()
ComponentWindow_close_popup ==
    GenericWindow_close_popup

\* pub fn run(&self), up to the event loop:
\*   let event_loop = crate::eventloop::EventLoop::new();
\*   self.0.clone().map_window(&event_loop);
ComponentWindow_run_map ==
    /\ run_pc = "idle"
    /\ GenericWindow_map_window
    /\ run_pc' = "event_loop"
    /\ run_calls' = <<"map_window">>

\*   event_loop.run();
\* The loop hands events to the window until it returns.
EventLoop_run_returns ==
    /\ run_pc = "event_loop"
    /\ wpc = "idle"
    /\ run_pc' = "after_loop"
    /\ run_calls' = Append(run_calls, "event_loop.run")
    /\ UNCHANGED <<component, focus_item, active_popup, mapped, width, height,
                   has_focus, notes, wpc, pending, last, pre, maps,
                   scale_factor, keyboard_modifiers, cached, returned, clones,
                   writer, sigvars>>

\* A run that returns without taking the window off the screen.
ComponentWindow_run_unmap_forgotten ==
    /\ run_pc = "after_loop"
    /\ run_pc' = "idle"
    /\ notes' = <<>>
    /\ UNCHANGED <<component, focus_item, active_popup, mapped, width, height,
                   has_focus, wpc, pending, maps, run_calls,
                   scale_factor, keyboard_modifiers, cached>>

\* run, after the event loop:
\*   self.0.clone().unmap_window();
ComponentWindow_run_unmap ==
    /\ run_pc = "after_loop"
    /\ GenericWindow_unmap_window
    /\ run_pc' = "idle"
    /\ run_calls' = Append(run_calls, "unmap_window")

(***************************************************************************)
(* The callers of the window: one call at a time, on the thread of the     *)
(* event loop.                                                             *)
(***************************************************************************)
RecordCall(call) ==
    /\ wpc = "idle"
    /\ last' = call
    /\ pre' = Snapshot
    /\ UNCHANGED sigvars

\* A call other than run: made by the application when no run is in
\* progress, or from the event loop of the run in progress.
Record(call) ==
    /\ RecordCall(call)
    /\ run_pc \in {"idle", "event_loop"}
    /\ returned' = None
    /\ UNCHANGED <<run_pc, run_calls, clones, writer>>

CallSetComponent ==
    \E c \in Components :
        /\ Record(Call("set_component", None, c, None, None, 0, FALSE))
        /\ ComponentWindow_set_component(c)

CallProcessKeyInput ==
    \E e \in KeyEvents :
        /\ Record(Call("process_key_input", None, None, None, e, 0, FALSE))
        /\ ComponentWindow_process_key_input(e)

\* The item that asks for the focus is an item of the tree the window shows.
CallSetFocusItem ==
    \E i \in Items :
        /\ ComponentOf(i) = component
        /\ Record(Call("set_focus_item", i, None, None, None, 0, FALSE))
        /\ ComponentWindow_set_focus_item(i)

\* The event loop passes a mouse event of the windowing system on.
CallProcessMouseInput ==
    \E pos \in MousePositions, what \in MouseEventTypes :
        /\ Record(Call("process_mouse_input", None, None, pos, what, 0, FALSE))
        /\ GenericWindow_process_mouse_input(pos, what)

CallSetFocus ==
    \E f \in BOOLEAN :
        /\ Record(Call("set_focus", None, None, None, None, 0, f))
        /\ GenericWindow_set_focus(f)

CallShowPopup ==
    \E p \in Components, pos \in Positions :
        /\ Record(Call("show_popup", None, p, pos, None, 0, FALSE))
        /\ ComponentWindow_show_popup(p, pos)

CallClosePopup ==
    /\ Record(Call("close_popup", None, None, None, None, 0, FALSE))
    /\ ComponentWindow_close_popup

\* The application puts the window on screen, or takes it off, by itself
\* only when no run is in progress.
CallMapWindow ==
    /\ run_pc = "idle"
    /\ Record(Call("map_window", None, None, None, None, 0, FALSE))
    /\ GenericWindow_map_window

CallUnmapWindow ==
    /\ run_pc = "idle"
    /\ Record(Call("unmap_window", None, None, None, None, 0, FALSE))
    /\ GenericWindow_unmap_window

\* A call that returns a value to its caller.
RecordGet(call) ==
    /\ RecordCall(call)
    /\ run_pc \in {"idle", "event_loop"}
    /\ UNCHANGED <<run_pc, run_calls, clones, writer>>

\* The ComponentWindow value h is one of those at hand, and the window its
\* Rc points to is the window of this model.
Through(h) == h \in DOMAIN clones /\ clones[h] = TheWindow

\* let w2 = w.clone();
CallClone ==
    /\ Len(clones) < MaxClones
    /\ \E h \in DOMAIN clones :
          /\ RecordCall(Call("clone", None, None, None, None, h, FALSE))
          /\ clones' = Append(clones, ComponentWindow_clone(clones[h]))
    /\ run_pc \in {"idle", "event_loop"}
    /\ returned' = None
    /\ UNCHANGED <<component, focus_item, active_popup, mapped, width, height,
                   has_focus, notes, wpc, pending, maps,
                   scale_factor, keyboard_modifiers, cached,
                   run_pc, run_calls, writer>>

\* The event loop draws the window.
CallDraw ==
    /\ Record(Call("draw", None, None, None, None, 0, FALSE))
    /\ GenericWindow_draw

CallScaleFactor ==
    \E h \in DOMAIN clones :
        /\ Through(h)
        /\ RecordGet(Call("scale_factor", None, None, None, None, h, FALSE))
        /\ ComponentWindow_scale_factor

CallSetScaleFactor ==
    \E h \in DOMAIN clones, f \in ScaleFactors :
        /\ Through(h)
        /\ RecordCall(Call("set_scale_factor", None, None, None, None, f, FALSE))
        /\ ComponentWindow_set_scale_factor(f)
        /\ run_pc \in {"idle", "event_loop"}
        /\ writer' = h
        /\ returned' = None
        /\ UNCHANGED <<run_pc, run_calls, clones>>

CallFreeGraphicsResources ==
    \E h \in DOMAIN clones, items \in SUBSET Items :
        /\ Through(h)
        /\ Record(Call("free_graphics_resources", items, None, None, None, h, FALSE))
        /\ ComponentWindow_free_graphics_resources(items)

CallSetCurrentKeyboardModifiers ==
    \E h \in DOMAIN clones, m \in KeyboardModifiers :
        /\ Through(h)
        /\ Record(Call("set_current_keyboard_modifiers", None, None, None, m, h, FALSE))
        /\ ComponentWindow_set_current_keyboard_modifiers(m)

CallCurrentKeyboardModifiers ==
    \E h \in DOMAIN clones :
        /\ Through(h)
        /\ RecordGet(Call("current_keyboard_modifiers", None, None, None, None, h, FALSE))
        /\ ComponentWindow_current_keyboard_modifiers

\* run is called; it has no arguments and returns nothing.
CallRun ==
    /\ RecordCall(Call("run", None, None, None, None, 0, FALSE))
    /\ ComponentWindow_run_map
    /\ UNCHANGED <<returned, clones, writer>>

\* run returns to its caller.
RunReturns ==
    /\ RecordCall(Call("run", None, None, None, None, 0, TRUE))
    /\ ComponentWindow_run_unmap
    /\ UNCHANGED <<returned, clones, writer>>

CallSetWidth ==
    \E w \in Sizes :
        /\ Record(Call("set_width", None, None, None, None, w, FALSE))
        /\ GenericWindow_set_width(w)

CallSetHeight ==
    \E h \in Sizes :
        /\ Record(Call("set_height", None, None, None, None, h, FALSE))
        /\ GenericWindow_set_height(h)

(***************************************************************************)
(* Properties of the window.                                               *)
(***************************************************************************)
Focused == {i \in Items : has_focus[i]}

FocusOutOf(item) ==
    IF item # None THEN <<Note("FocusOut", item, None)>> ELSE <<>>

\* Everything of the window but the popup is as it was before the last call.
SameButPopup ==
    /\ component = pre.component
    /\ focus_item = pre.focus_item
    /\ mapped = pre.mapped
    /\ width = pre.width
    /\ height = pre.height
    /\ has_focus = pre.has_focus

C5_FocusTransfer ==
    /\ Cardinality(Focused) <= 1
    /\ \A i \in Focused : focus_item = i
    /\ wpc = "focus_in" =>
          /\ last.op = "set_focus_item"
          /\ Focused = {}
          /\ notes = FocusOutOf(pre.focus_item)
    /\ (wpc = "idle" /\ last.op = "set_focus_item") =>
          /\ focus_item = last.item
          /\ Focused = {last.item}
          /\ notes = FocusOutOf(pre.focus_item)
                        \o <<Note("FocusIn", last.item, None)>>

\* The focus went from A to B.
C5_Witness ==
    /\ wpc = "idle"
    /\ last.op = "set_focus_item"
    /\ pre.focus_item = "A"
    /\ pre.has_focus["A"]
    /\ last.item = "B"
    /\ focus_item = "B"
    /\ Len(notes) = 2

\* C6: process_key_input hands the event to the focus item and to nothing
\* else; without a focus item nothing receives it and the window is as it
\* was.
C6_KeyInputToFocusItemOnly ==
    last.op = "process_key_input" =>
        /\ pre.focus_item # None =>
              notes = <<Note("KeyEvent", pre.focus_item, last.key)>>
        /\ pre.focus_item = None =>
              /\ notes = <<>>
              /\ SameButPopup
              /\ active_popup = pre.active_popup

\* A key event arrived at a window that has a component and no focus item.
C6_Witness ==
    /\ last.op = "process_key_input"
    /\ last.key = "k2"
    /\ pre.focus_item = None
    /\ pre.component # None
    /\ notes = <<>>

\* A key event arrived at a window whose focus item is B.
C6_WitnessFocused ==
    /\ last.op = "process_key_input"
    /\ last.key = "k2"
    /\ pre.focus_item = "B"
    /\ Len(notes) = 1

\* C7: never more than one popup is shown, and after show_popup the popup
\* shown is the one of that call at the position of that call, also when a
\* popup was shown before.
C7_AtMostOnePopup ==
    /\ Cardinality(active_popup) <= 1
    /\ last.op = "show_popup" =>
          active_popup = {Popup(last.component, last.position)}

\* A popup was shown while another one was shown at another position.
C7_Witness ==
    /\ last.op = "show_popup"
    /\ pre.active_popup = {Popup("r1", "p1")}
    /\ active_popup = {Popup("r2", "p2")}

\* C8: after close_popup no popup is shown; when none was shown the call
\* changes nothing.
C8_ClosePopup ==
    last.op = "close_popup" =>
        /\ active_popup = {}
        /\ notes = <<>>
        /\ pre.active_popup = {} => SameButPopup

\* close_popup on a window that is on screen, has a focus item and no popup.
C8_Witness ==
    /\ last.op = "close_popup"
    /\ pre.active_popup = {}
    /\ pre.mapped
    /\ pre.focus_item # None
    /\ pre.component # None

\* C9: show_popup changes the popup shown and nothing else: not the focus
\* item, not the component, not the size of the window.
C9_ShowPopupFrame ==
    last.op = "show_popup" =>
        /\ SameButPopup
        /\ notes = <<>>

\* show_popup on a window that is on screen and has a component and a focus
\* item.
C9_Witness ==
    /\ last.op = "show_popup"
    /\ active_popup # pre.active_popup
    /\ pre.mapped
    /\ pre.focus_item # None
    /\ pre.component # None
    /\ pre.width # pre.height

\* C10: a window starts off screen; map_window puts it on screen,
\* unmap_window takes it off and leaves the rest of it as it was, and
\* map_window can be called again, however often this was done before.
C10_MapUnmapCycle ==
    /\ last.op = "none" => ~mapped
    /\ last.op = "map_window" => mapped
    /\ last.op = "unmap_window" =>
          /\ ~mapped
          /\ component = pre.component
          /\ focus_item = pre.focus_item
          /\ active_popup = pre.active_popup
          /\ width = pre.width
          /\ height = pre.height
    /\ (wpc = "idle" /\ ~mapped) => ENABLED CallMapWindow
    /\ maps > 0 => last.op # "none"

\* The window was put on screen, taken off, and put on screen again.
C10_Witness ==
    /\ last.op = "map_window"
    /\ ~pre.mapped
    /\ mapped
    /\ maps = MaxMaps
    /\ component # None

RunSteps == <<"map_window", "event_loop.run", "unmap_window">>

\* C18: run makes one map_window call on the wrapped window, then runs the
\* event loop, then makes one unmap_window call, in that order and nothing
\* else: while the event loop runs, and until unmap_window is called after
\* it has returned, the window is on screen; when run returns the window is
\* off screen.
C18_RunMapsLoopsUnmaps ==
    /\ run_pc = "event_loop" => (mapped /\ run_calls = SubSeq(RunSteps, 1, 1))
    /\ run_pc = "after_loop" => (mapped /\ run_calls = SubSeq(RunSteps, 1, 2))
    /\ run_pc = "idle" => run_calls \in {<<>>, RunSteps}
    /\ (last.op = "run" /\ ~last.flag) =>
          (run_pc \in {"event_loop", "after_loop"} /\ mapped)
    /\ (last.op = "run" /\ last.flag) =>
          /\ run_pc = "idle"
          /\ run_calls = RunSteps
          /\ pre.mapped
          /\ ~mapped

\* A run put a window with a focus item on screen for the first time, its
\* event loop ran and returned, and run has returned with the window off
\* screen.
C18_Witness ==
    /\ last.op = "run" /\ last.flag
    /\ run_calls = RunSteps
    /\ ~mapped
    /\ pre.mapped
    /\ focus_item # None
    /\ maps = 1

\* What a step that is a call of a ComponentWindow operation does to the
\* window: what the operation of the same name of GenericWindow does with
\* the arguments of the call, and nothing is returned unless that operation
\* returns it.
Forwards ==
    wpc = "idle" =>
      /\ last'.op = "set_component" =>
            (GenericWindow_set_component(last'.component) /\ returned' = None)
      /\ last'.op = "set_focus_item" =>
            (GenericWindow_set_focus_item(last'.item) /\ returned' = None)
      /\ last'.op = "process_key_input" =>
            (GenericWindow_process_key_input(last'.key) /\ returned' = None)
      /\ last'.op = "show_popup" =>
            (GenericWindow_show_popup(last'.component, last'.position)
               /\ returned' = None)
      /\ last'.op = "close_popup" =>
            (GenericWindow_close_popup /\ returned' = None)
      /\ last'.op = "set_scale_factor" =>
            (GenericWindow_set_scale_factor(last'.n) /\ returned' = None)
      /\ last'.op = "scale_factor" => GenericWindow_scale_factor
      /\ last'.op = "free_graphics_resources" =>
            (GenericWindow_free_graphics_resources(last'.item) /\ returned' = None)
      /\ last'.op = "set_current_keyboard_modifiers" =>
            (GenericWindow_set_current_keyboard_modifiers(last'.key)
               /\ returned' = None)
      /\ last'.op = "current_keyboard_modifiers" =>
            GenericWindow_current_keyboard_modifiers

\* Every ComponentWindow value at hand wraps the one window, and what a
\* getter called through any of them returned is the state of that window,
\* whichever of them it was set through.
ClonesShareTheWindow ==
    /\ \A h \in DOMAIN clones : clones[h] = TheWindow
    /\ writer \in 0..Len(clones)
    /\ last.op = "scale_factor" => returned = scale_factor
    /\ last.op = "current_keyboard_modifiers" => returned = keyboard_modifiers

\* C19: each operation of ComponentWindow (set_component, set_focus_item,
\* process_key_input, show_popup, close_popup, set_scale_factor,
\* scale_factor, free_graphics_resources, the keyboard modifiers' get and
\* set) does to the wrapped window exactly what the GenericWindow operation
\* of the same name does with the same arguments, and nothing else; all
\* clones of a ComponentWindow wrap the same window, so what was set through
\* one is what is read through another.
C19_WrappersForwardToOneWindow ==
    []ClonesShareTheWindow /\ [][Forwards]_vars

\* The scale factor was set through one ComponentWindow value and read
\* through another, which returned the factor that was set.
C19_Witness ==
    /\ last.op = "scale_factor"
    /\ writer # 0
    /\ last.n # writer
    /\ returned = scale_factor
    /\ scale_factor # 1

(***************************************************************************)
(* Specifications.                                                         *)
(***************************************************************************)
SignalNext ==
    \/ CallDefault
    \/ CallInit
    \/ CallEmit
    \/ CallFfiEmit
    \/ CallEmitOverflow
    \/ CallSetHandler
    \/ CallFfiSetHandler
    \/ CallDrop
    \/ HandlerBody
    \/ HandlerReturn

WindowNext ==
    \/ CallSetComponent
    \/ CallProcessMouseInput
    \/ CallProcessKeyInput
    \/ CallSetFocusItem
    \/ GenericWindow_set_focus_item_in
    \/ CallSetFocus
    \/ CallShowPopup
    \/ CallClosePopup
    \/ CallMapWindow
    \/ CallUnmapWindow
    \/ CallSetWidth
    \/ CallSetHeight

\* A window that is run: the calls of run, the events its loop hands on,
\* and what an application calls before and after.
RunNext ==
    \/ CallRun
    \/ EventLoop_run_returns
    \/ RunReturns
    \/ CallSetComponent
    \/ CallSetFocusItem
    \/ GenericWindow_set_focus_item_in
    \/ CallProcessKeyInput
    \/ CallProcessMouseInput
    \/ CallMapWindow
    \/ CallUnmapWindow

\* The ComponentWindow values of one window and the calls made through them.
ForwardNext ==
    \/ CallClone
    \/ CallSetComponent
    \/ CallSetFocusItem
    \/ GenericWindow_set_focus_item_in
    \/ CallProcessKeyInput
    \/ CallShowPopup
    \/ CallClosePopup
    \/ CallDraw
    \/ CallScaleFactor
    \/ CallSetScaleFactor
    \/ CallFreeGraphicsResources
    \/ CallSetCurrentKeyboardModifiers
    \/ CallCurrentKeyboardModifiers

\* The channel and its callers; the window is left as created.
SignalInit == SigNew(ArgTypes) /\ WinNew({320})

SignalSpec == SignalInit /\ [][SignalNext]_vars

\* The window and its callers; the channel is left uninitialised.
WindowInit == WinNew(Sizes) /\ SigNew({"unit"})

WindowSpec == WindowInit /\ [][WindowNext]_vars

RunInit == WinNew(Sizes) /\ SigNew({"unit"})

RunSpec == RunInit /\ [][RunNext]_vars

ForwardInit == WinNew({320}) /\ SigNew({"unit"})

ForwardSpec == ForwardInit /\ [][ForwardNext]_vars
====
